---------------------------- MODULE Spec2Model ----------------------------
(***************************************************************************)
(* A model of the lexer of src/parse.rs: the position-tracking character   *)
(* iterator CharsPos, the integer lexer Lexer::lex_int and the iterator    *)
(* step Lexer::next.                                                       *)
(*                                                                         *)
(* Characters are one-character strings.  A &str / std::str::Chars is the  *)
(* sequence of the characters not yet consumed.  An i64 is kept at its     *)
(* full width as a decimal numeral: the sequence of its digits, most       *)
(* significant first, without leading zeros (zero is <<0>>), since the     *)
(* values that decide overflow (2^63-1 and its neighbours) are wider than  *)
(* the integers of the model checker.                                      *)
(***************************************************************************)
EXTENDS Integers, Sequences, FiniteSets, TLC

VARIABLES
    source,     \* Lexer.source: the whole text handed to Lexer::new
    filename,   \* Lexer.filename: the interned file label
    chars,      \* Lexer.chars: the CharsPos (remaining characters, pos)
    peeked,     \* the value of the latest Lexer::peek
    yielded,    \* the value of the latest CharsPos::next made on the iterator itself
    result,     \* what the latest call of Lexer::next did
    calls,      \* how many calls of Lexer::next have been made
    tokens      \* the tokens yielded so far (what lex() collects)

vars == <<source, filename, chars, peeked, yielded, result, calls, tokens>>

-----------------------------------------------------------------------------
(* Bounds of the model. *)

\* Longest text enumerated character by character.
MaxLen == 3

\* The characters the enumerated texts are made of: two digits, a newline,
\* a letter and a character that begins no lexeme at all.
Alphabet == {"0", "7", "\n", "a", "%"}

\* Digit runs around the edge of the i64 range, put in front of an
\* enumerated text: 2^63-1, 2^63, 2^63-1 with a leading zero, and 20 nines.
LongRuns ==
    { <<>>,
      <<"9","2","2","3","3","7","2","0","3","6","8","5","4","7","7","5","8","0","7">>,
      <<"9","2","2","3","3","7","2","0","3","6","8","5","4","7","7","5","8","0","8">>,
      <<"0","9","2","2","3","3","7","2","0","3","6","8","5","4","7","7","5","8","0","7">>,
      <<"9","9","9","9","9","9","9","9","9","9","9","9","9","9","9","9","9","9","9","9">> }

\* The texts of the language the lexer is meant for, one per scenario.
Implies_text == <<"-", ">">>
LessEq_text == <<"<", "=">>
Update_text == <<"/", "/">>
Comment_text == <<"1", "/", "*", "c", "*", "/", "+", "2">>
Interpolation_text ==
    <<"\"", "a", "$", "{", " ", "{", " ", "b", " ", "=", " ", "1", ";", " ", "}", " ", "}", "\"">>
Float_text == <<"3", ".", "1", "4">>
Unterminated_text == <<"\"", "a", "b", "c">>

Scenarios ==
    { Implies_text, LessEq_text, Update_text, Comment_text,
      Interpolation_text, Float_text, Unterminated_text }

\* The most calls of Lexer::next made on one lexer.
MaxCalls == 3

\* The file labels a Lexer is created with.
Filenames == {"<test>", "default.nix"}

RECURSIVE SeqsUpTo(_, _)
SeqsUpTo(S, n) ==
    IF n = 0 THEN {<<>>}
    ELSE LET shorter == SeqsUpTo(S, n - 1)
         IN  shorter \cup {Append(s, c) : s \in shorter, c \in S}

Sources ==
    {run \o text : run \in LongRuns, text \in SeqsUpTo(Alphabet, MaxLen)}
        \cup Scenarios

-----------------------------------------------------------------------------
(* Option<T> *)

None == [some |-> FALSE]
Some(x) == [some |-> TRUE, val |-> x]

-----------------------------------------------------------------------------
(* Pos, Span, Spanned *)

Pos(line, column) == [line |-> line, column |-> column]

\* fmt::Display for Pos is "line:column"; the order of positions that goes
\* with it is lexicographic on (line, column).
PosLe(p, q) == p.line < q.line \/ (p.line = q.line /\ p.column <= q.column)

\* EvalContext::intern lives outside this file: a stable handle per string.
SymbolTable == <<"<test>", "default.nix">>
intern(name) == CHOOSE i \in 1..Len(SymbolTable) : SymbolTable[i] = name

-----------------------------------------------------------------------------
(* char::is_digit(10) and the digit's value *)

Digits == {"0", "1", "2", "3", "4", "5", "6", "7", "8", "9"}

is_digit(c) == c \in Digits

to_digit(c) ==
    CASE c = "0" -> 0 [] c = "1" -> 1 [] c = "2" -> 2 [] c = "3" -> 3
      [] c = "4" -> 4 [] c = "5" -> 5 [] c = "6" -> 6 [] c = "7" -> 7
      [] c = "8" -> 8 [] c = "9" -> 9

-----------------------------------------------------------------------------
(* i64 as a decimal numeral, and str::parse::<i64> *)

\* i64::MAX = 2^63 - 1 = 9223372036854775807
I64_MAX == <<9,2,2,3,3,7,2,0,3,6,8,5,4,7,7,5,8,0,7>>

RECURSIVE LexLe(_, _)
LexLe(a, b) ==
    IF a = <<>> THEN TRUE
    ELSE IF Head(a) # Head(b) THEN Head(a) < Head(b)
    ELSE LexLe(Tail(a), Tail(b))

\* a <= b for numerals without leading zeros
NumLe(a, b) == Len(a) < Len(b) \/ (Len(a) = Len(b) /\ LexLe(a, b))

\* acc * 10 + d
MulAdd10(acc, d) == IF acc = <<0>> THEN <<d>> ELSE Append(acc, d)

\* <i64 as FromStr>::from_str on a string of decimal digits: the empty
\* string is an error, each digit is folded in with checked_mul and
\* checked_add, a value above i64::MAX is PosOverflow.
RECURSIVE parse_fold(_, _)
parse_fold(acc, digits) ==
    IF digits = <<>> THEN [ok |-> TRUE, val |-> acc]
    ELSE LET next == MulAdd10(acc, to_digit(Head(digits)))
         IN  IF NumLe(next, I64_MAX)
             THEN parse_fold(next, Tail(digits))
             ELSE [ok |-> FALSE, err |-> "PosOverflow"]

parse_i64(digits) ==
    IF digits = <<>> THEN [ok |-> FALSE, err |-> "Empty"]
    ELSE parse_fold(<<0>>, digits)

-----------------------------------------------------------------------------
(* CharsPos *)

\* CharsPos::new counting from 0.
CharsPos_new_from0(s) == [chars |-> s, pos |-> Pos(0, 0)]

CharsPos_new(s) == [chars |-> s, pos |-> Pos(1, 1)]

as_str(cp) == cp.chars

\* CharsPos::next with a newline sending the column to 0.
CharsPos_next_column0(cp) ==
    IF cp.chars = <<>>
    THEN [opt |-> None, self |-> cp]
    ELSE LET c == Head(cp.chars)
         IN  [opt  |-> Some(c),
              self |-> [chars |-> Tail(cp.chars),
                        pos   |-> IF c = "\n"
                                  THEN Pos(cp.pos.line + 1, 0)
                                  ELSE Pos(cp.pos.line, cp.pos.column + 1)]]

\* CharsPos::next with a newline resetting the column and leaving the line.
CharsPos_next_same_line(cp) ==
    IF cp.chars = <<>>
    THEN [opt |-> None, self |-> cp]
    ELSE LET c == Head(cp.chars)
         IN  [opt  |-> Some(c),
              self |-> [chars |-> Tail(cp.chars),
                        pos   |-> IF c = "\n"
                                  THEN Pos(cp.pos.line, 1)
                                  ELSE Pos(cp.pos.line, cp.pos.column + 1)]]

\* CharsPos::next counting a column for the end of input too.
CharsPos_next_counts_eof(cp) ==
    IF cp.chars = <<>>
    THEN [opt |-> None,
          self |-> [chars |-> <<>>, pos |-> Pos(cp.pos.line, cp.pos.column + 1)]]
    ELSE LET c == Head(cp.chars)
         IN  [opt  |-> Some(c),
              self |-> [chars |-> Tail(cp.chars),
                        pos   |-> IF c = "\n"
                                  THEN Pos(cp.pos.line + 1, 1)
                                  ELSE Pos(cp.pos.line, cp.pos.column + 1)]]

\* Iterator::next for CharsPos: the character taken, and the iterator after.
CharsPos_next(cp) ==
    IF cp.chars = <<>>
    THEN [opt |-> None, self |-> cp]
    ELSE LET c == Head(cp.chars)
         IN  [opt  |-> Some(c),
              self |-> [chars |-> Tail(cp.chars),
                        pos   |-> IF c = "\n"
                                  THEN Pos(cp.pos.line + 1, 1)
                                  ELSE Pos(cp.pos.line, cp.pos.column + 1)]]

\* The count with take_while in place of take_while_ref: the first
\* character that is not a digit is consumed as well.
RECURSIVE take_while_count(_)
take_while_count(cp) ==
    LET r == CharsPos_next(cp)
    IN  IF r.opt.some /\ is_digit(r.opt.val)
        THEN LET rest == take_while_count(r.self)
             IN  [count |-> rest.count + 1, self |-> rest.self]
        ELSE [count |-> 0, self |-> r.self]

\* self.chars.take_while_ref(|c| c.is_digit(10)).count(): each element is
\* taken from a clone, and the clone is kept only when the element is a
\* digit, so the first non-digit stays in the iterator.
RECURSIVE take_while_ref_count(_)
take_while_ref_count(cp) ==
    LET r == CharsPos_next(cp)
    IN  IF r.opt.some /\ is_digit(r.opt.val)
        THEN LET rest == take_while_ref_count(r.self)
             IN  [count |-> rest.count + 1, self |-> rest.self]
        ELSE [count |-> 0, self |-> cp]

-----------------------------------------------------------------------------
(* Lexer *)

\* Lexer::peek looking one character too far.
peek_one_ahead(cp) == CharsPos_next(CharsPos_next(cp).self).opt

\* Lexer::peek: next() on a clone of the iterator; the clone is dropped.
peek(cp) == CharsPos_next(cp).opt

\* Lexer::pos
pos(cp) == cp.pos

\* Lexer::spanned with start and end exchanged.
spanned_swapped(fname, start, end, val) ==
    [val |-> val, span |-> [filename |-> fname, start |-> end, end |-> start]]

\* Lexer::spanned
spanned(fname, start, end, val) ==
    [val |-> val, span |-> [filename |-> fname, start |-> start, end |-> end]]

TokenKind_Int(v) == [kind |-> "Int", int |-> v]

\* lex_int with the end of the span read before the digits are consumed.
lex_int_end_before(fname, cp) ==
    LET start      == pos(cp)
        str        == as_str(cp)
        taken      == take_while_ref_count(cp)
        num_digits == taken.count
        digits     == SubSeq(str, 1, num_digits)
        parsed     == parse_i64(digits)
    IN  IF parsed.ok
        THEN [panic |-> FALSE,
              tok   |-> spanned(fname, start, pos(cp), TokenKind_Int(parsed.val)),
              self  |-> taken.self]
        ELSE [panic |-> TRUE, msg |-> parsed.err, self |-> taken.self]

\* Lexer::lex_int: the token, or the panic of unwrap() on a parse error,
\* and the iterator after the digits.
lex_int(fname, cp) ==
    LET start      == pos(cp)
        str        == as_str(cp)
        taken      == take_while_ref_count(cp)
        num_digits == taken.count
        digits     == SubSeq(str, 1, num_digits)
        parsed     == parse_i64(digits)
    IN  IF parsed.ok
        THEN [panic |-> FALSE,
              tok   |-> spanned(fname, start, pos(taken.self), TokenKind_Int(parsed.val)),
              self  |-> taken.self]
        ELSE [panic |-> TRUE, msg |-> parsed.err, self |-> taken.self]

\* Lexer::next with the end of input falling into the arm of the unhandled
\* characters.
Lexer_next_no_eof(fname, cp) ==
    LET p == peek(cp)
    IN  IF p.some /\ is_digit(p.val)
        THEN LET r == lex_int(fname, cp)
             IN  IF r.panic
                 THEN [kind |-> "panic", msg |-> r.msg, self |-> r.self]
                 ELSE [kind |-> "Some", tok |-> r.tok, self |-> r.self]
        ELSE [kind |-> "panic", msg |-> "unhandled char", self |-> cp]

\* Lexer::next ending the sequence at a character it does not handle.
Lexer_next_stops(fname, cp) ==
    LET p == peek(cp)
    IN  IF p.some /\ is_digit(p.val)
        THEN LET r == lex_int(fname, cp)
             IN  IF r.panic
                 THEN [kind |-> "panic", msg |-> r.msg, self |-> r.self]
                 ELSE [kind |-> "Some", tok |-> r.tok, self |-> r.self]
        ELSE [kind |-> "None", self |-> cp]

\* Iterator::next for Lexer: what the call returns or how it dies, and the
\* iterator it leaves.
Lexer_next(fname, cp) ==
    LET p == peek(cp)
    IN  IF p.some /\ is_digit(p.val)
        THEN LET r == lex_int(fname, cp)
             IN  IF r.panic
                 THEN [kind |-> "panic", msg |-> r.msg, self |-> r.self]
                 ELSE [kind |-> "Some", tok |-> r.tok, self |-> r.self]
        ELSE IF p.some
        THEN [kind |-> "panic", msg |-> "unhandled char", self |-> cp]
        ELSE [kind |-> "None", self |-> cp]

-----------------------------------------------------------------------------
(* The lexer as a state machine *)

\* Lexer::new over any file label and any text; nothing called yet.
Init ==
    /\ source \in Sources
    /\ \E name \in Filenames : filename = intern(name)
    /\ chars = CharsPos_new(source)
    /\ peeked = None
    /\ yielded = None
    /\ result = [kind |-> "init"]
    /\ calls = 0
    /\ tokens = <<>>

\* A panic unwinds out of the lexer: nothing is called after it.
Alive == result.kind # "panic"

\* One call of Lexer::next, as lex() and the tests make through collect().
LexerNext ==
    /\ Alive
    /\ calls < MaxCalls
    /\ calls' = calls + 1
    /\ LET r == Lexer_next(filename, chars)
       IN  /\ peeked' = peek(chars)
           /\ chars' = r.self
           /\ result' = IF r.kind = "Some" THEN [kind |-> "Some", tok |-> r.tok]
                        ELSE IF r.kind = "panic" THEN [kind |-> "panic", msg |-> r.msg]
                        ELSE [kind |-> "None"]
           /\ tokens' = IF r.kind = "Some" THEN Append(tokens, r.tok) ELSE tokens
    /\ UNCHANGED <<source, filename, yielded>>

Next == LexerNext

Spec == Init /\ [][Next]_vars

-----------------------------------------------------------------------------
(* The position tracker driven call by call *)

\* One call of CharsPos::next on the lexer's own iterator.
CharsPosNext ==
    /\ Alive
    /\ LET r == CharsPos_next(chars)
       IN  /\ yielded' = r.opt
           /\ chars' = r.self
    /\ UNCHANGED <<source, filename, peeked, result, calls, tokens>>

\* One call of Lexer::peek.
LexerPeek ==
    /\ Alive
    /\ peeked' = peek(chars)
    /\ UNCHANGED <<source, filename, chars, yielded, result, calls, tokens>>

\* A lexer as the tests make it, over an enumerated text.
TrackerInit ==
    /\ source \in SeqsUpTo(Alphabet, MaxLen)
    /\ filename = intern("<test>")
    /\ chars = CharsPos_new(source)
    /\ peeked = None
    /\ yielded = None
    /\ result = [kind |-> "init"]
    /\ calls = 0
    /\ tokens = <<>>

TrackerNext == CharsPosNext \/ LexerPeek \/ LexerNext

TrackerSpec == TrackerInit /\ [][TrackerNext]_vars

-----------------------------------------------------------------------------
(* What the properties below speak of *)

\* The part of the text the iterator has consumed.
Consumed == SubSeq(source, 1, Len(source) - Len(chars.chars))

\* The longest run of decimal digits a text starts with.
RECURSIVE DigitRun(_)
DigitRun(s) ==
    IF s # <<>> /\ Head(s) \in Digits THEN <<Head(s)>> \o DigitRun(Tail(s)) ELSE <<>>

AllDigits(s) == \A i \in 1..Len(s) : s[i] \in Digits

RECURSIVE StripZeros(_)
StripZeros(s) ==
    IF Len(s) > 1 /\ Head(s) = "0" THEN StripZeros(Tail(s)) ELSE s

\* The number a non-empty string of digits denotes, as a numeral: its
\* digits without the leading zeros.
Numeral(s) == LET t == StripZeros(s) IN [i \in 1..Len(t) |-> to_digit(t[i])]

\* The number a short string of digits denotes, as an integer.
RECURSIVE Value(_)
Value(s) ==
    IF s = <<>> THEN 0 ELSE 10 * Value(SubSeq(s, 1, Len(s) - 1)) + to_digit(s[Len(s)])

RECURSIVE NumeralValue(_)
NumeralValue(n) ==
    IF n = <<>> THEN 0 ELSE 10 * NumeralValue(SubSeq(n, 1, Len(n) - 1)) + n[Len(n)]

\* Longest digit string whose value the model checker's integers hold.
ShortRun == 9

\* The digit string denotes a number of the i64 range, 0 .. 2^63-1.
FitsI64(s) == NumLe(Numeral(s), I64_MAX)

\* The characters of Alphabet that begin no lexeme of the language: not a
\* digit, a letter, white space, an operator or a delimiter.
NoLexeme == {"%"}

Called == result.kind # "init"

-----------------------------------------------------------------------------
(* C1 *)

\* C1: when the next character begins no token, Lexer::next returns an
\* Unknown token whose span is exactly that character, consumes it and
\* does not abort.
C1_UnknownTokenNoAbort ==
    [][ (Alive /\ peek(chars).some /\ peek(chars).val \in NoLexeme)
        => /\ result'.kind = "Some"
           /\ result'.tok.val.kind = "Unknown"
           /\ result'.tok.span.start = chars.pos
           /\ result'.tok.span.end = CharsPos_next(chars).self.pos
           /\ chars' = CharsPos_next(chars).self ]_vars

-----------------------------------------------------------------------------
(* C2 *)

\* C2: when the digit run at hand denotes a number above 2^63-1,
\* Lexer::next returns an error token for it; no call ends in an abort
\* caused by parsing the integer.
C2_OverflowReported ==
    [][ (Alive /\ DigitRun(chars.chars) # <<>> /\ ~FitsI64(DigitRun(chars.chars)))
        => /\ result'.kind = "Some"
           /\ result'.tok.val.kind # "Int" ]_vars

-----------------------------------------------------------------------------
(* C3 *)

\* C3: the calls of Lexer::next come to an end with None and in no other
\* way (every call returns, and once no call can follow, the last one has
\* returned None), and no more tokens are yielded than the text has
\* characters.
C3_EndsWithNone ==
    /\ Len(tokens) <= Len(source)
    /\ (~Alive => result.kind = "None")

-----------------------------------------------------------------------------
(* C4 *)

\* C4: a non-empty text of n digits whose value v is at most 2^63-1 lexes
\* to the single token Int(v) with the span 1:1 - 1:(n+1), whether one
\* call has been made or the calls have gone on to None; "0" gives Int(0)
\* at 1:1 - 1:2.
C4_DigitsLexToOneInt ==
    /\ (source # <<>> /\ AllDigits(source) /\ FitsI64(source) /\ Called)
       => /\ result.kind \in {"Some", "None"}
          /\ tokens = << [val  |-> [kind |-> "Int", int |-> Numeral(source)],
                          span |-> [filename |-> filename,
                                    start |-> Pos(1, 1),
                                    end |-> Pos(1, Len(source) + 1)]] >>
          /\ (Len(source) <= ShortRun
              => NumeralValue(tokens[1].val.int) = Value(source))
    /\ (source = <<"0">> /\ Called)
       => /\ Len(tokens) = 1
          /\ tokens[1].val = [kind |-> "Int", int |-> <<0>>]
          /\ tokens[1].span.start = [line |-> 1, column |-> 1]
          /\ tokens[1].span.end = [line |-> 1, column |-> 2]

\* A text of several digits with a leading zero has been lexed to its end.
C4_Witness ==
    /\ Len(source) >= 2 /\ AllDigits(source) /\ source[1] = "0"
    /\ result.kind = "None"
    /\ Len(tokens) = 1

-----------------------------------------------------------------------------
(* C5 *)

\* C5: on the empty text the first call of Lexer::next, and any after it,
\* returns None: no token is yielded and the position stays 1:1.
C5_EmptySource ==
    (source = <<>> /\ Called)
    => /\ result.kind = "None"
       /\ tokens = <<>>
       /\ chars.pos = [line |-> 1, column |-> 1]

C5_Witness == source = <<>> /\ result.kind = "None" /\ peeked = None

-----------------------------------------------------------------------------
(* C6 *)

\* C6: of two tokens yielded one after the other, the first ends at or
\* before the start of the second, and every position of a span is at
\* line >= 1 and column >= 1.  The order is carried from call to call by:
\* the last token ends at or before the position of the iterator, and a
\* token starts where the iterator stood when the call was made.
C6_TokenOrderOneBased ==
    /\ [](/\ \A i \in 1..(Len(tokens) - 1) :
                PosLe(tokens[i].span.end, tokens[i + 1].span.start)
          /\ \A i \in 1..Len(tokens) :
                /\ tokens[i].span.start.line >= 1
                /\ tokens[i].span.start.column >= 1
                /\ tokens[i].span.end.line >= 1
                /\ tokens[i].span.end.column >= 1
          /\ (tokens # <<>> => PosLe(tokens[Len(tokens)].span.end, chars.pos)))
    /\ [][ Len(tokens') > Len(tokens)
           => tokens'[Len(tokens')].span.start = chars.pos ]_vars

\* A token has been yielded and a further call has been made.
C6_Witness == Len(tokens) = 1 /\ result.kind \in {"None", "panic"}

-----------------------------------------------------------------------------
(* C7 *)

NewlinesIn(s) == Cardinality({i \in 1..Len(s) : s[i] = "\n"})

\* The number of characters after the last newline of s (all, if none).
SinceNewline(s) ==
    LET nl == {i \in 1..Len(s) : s[i] = "\n"}
    IN  IF nl = {} THEN Len(s)
        ELSE Len(s) - (CHOOSE i \in nl : \A j \in nl : j <= i)

\* C7: a step that consumes a newline sets the column to 1 and adds 1 to
\* the line, a step that consumes one other character adds 1 to the column
\* and keeps the line, a step that consumes nothing (the end of input
\* included) keeps the position; so the line is 1 + the newlines consumed
\* and the column 1 + the characters consumed since the last of them.
C7_PosCountsLinesAndColumns ==
    /\ [](/\ chars.pos.line = 1 + NewlinesIn(Consumed)
          /\ chars.pos.column = 1 + SinceNewline(Consumed))
    /\ [][ LET n == Len(chars.chars) - Len(chars'.chars)
           IN  /\ n = 0 => chars'.pos = chars.pos
               /\ n = 1 => chars'.pos =
                              IF Head(chars.chars) = "\n"
                              THEN [line |-> chars.pos.line + 1, column |-> 1]
                              ELSE [line |-> chars.pos.line,
                                    column |-> chars.pos.column + 1] ]_vars

\* CharsPos::next has consumed a newline and a character after it and has
\* then been called at the end of input.
C7_Witness ==
    /\ chars.chars = <<>>
    /\ yielded = None
    /\ chars.pos = [line |-> 2, column |-> 2]
    /\ Len(source) = 3

-----------------------------------------------------------------------------
(* C8 *)

\* C8: no step of CharsPos::next, Lexer::peek or Lexer::next moves the
\* position of the iterator backwards in the order of (line, column).
C8_PosNeverGoesBack == [][PosLe(chars.pos, chars'.pos)]_vars

\* A newline was consumed by CharsPos::next, then a digit was looked at and
\* lexed by Lexer::next.
C8_Witness ==
    /\ yielded = Some("\n")
    /\ peeked.some
    /\ result.kind = "Some"
    /\ chars.pos.line = 2 /\ chars.pos.column > 1

-----------------------------------------------------------------------------
(* C9 *)

\* C9: the span of every token yielded has start <= end in the order of
\* (line, column).
C9_SpanStartLeEnd ==
    \A i \in 1..Len(tokens) : PosLe(tokens[i].span.start, tokens[i].span.end)

\* The token of the 19 digits of 2^63-1 has been yielded.
C9_Witness ==
    /\ tokens # <<>>
    /\ tokens[1].span.start.column = 1
    /\ tokens[1].span.end.column = 20

-----------------------------------------------------------------------------
(* C11 *)

\* The position the iterator has after consuming the text s from 1:1.
PosAfter(s) == [line |-> 1 + NewlinesIn(s), column |-> 1 + SinceNewline(s)]

\* The position at which the i-th character of the text sits.
PosOfChar(i) == PosAfter(SubSeq(source, 1, i - 1))

\* The tokens whose half-open span holds the i-th character of the text.
TokensOver(i) ==
    {k \in 1..Len(tokens) :
        /\ PosLe(tokens[k].span.start, PosOfChar(i))
        /\ PosLe(tokens[k].span.end, PosOfChar(i)) = FALSE}

\* The characters the lexer is to skip between tokens.
WhiteSpace == {" ", "\t", "\n"}

\* C11: when the calls have come to None, every character of the text is
\* in the span of exactly one token, or in none and skipped white space;
\* no span reaches past the end of the text.
C11_EveryCharOnce ==
    result.kind = "None"
    => /\ \A i \in 1..Len(source) :
            \/ Cardinality(TokensOver(i)) = 1
            \/ (TokensOver(i) = {} /\ source[i] \in WhiteSpace)
       /\ \A k \in 1..Len(tokens) : PosLe(tokens[k].span.end, PosAfter(source))

\* The text of 20 digits has been lexed to its end.
C11_Witness == result.kind = "None" /\ Len(source) = 20 /\ Len(tokens) = 1

-----------------------------------------------------------------------------
(* C12 - C16: texts of the language beyond the decimal integers *)

\* The kinds of the tokens yielded, in order.
Kinds == [k \in 1..Len(tokens) |-> tokens[k].val.kind]

\* The pass over the text is over: None was returned or a call died.
Lexed == result.kind \in {"None", "panic"}

\* C12: "->", "<=" and "//" each lex as the one two-character operator
\* (Implies, LessEq, Update), never as two one-character operators.
C12_MaximalMunch ==
    /\ (source = Implies_text /\ Called)
       => Alive /\ Kinds = <<"Implies">> /\ Kinds # <<"Minus", "Greater">>
    /\ (source = LessEq_text /\ Called)
       => Alive /\ Kinds = <<"LessEq">> /\ Kinds # <<"Less", "Assign">>
    /\ (source = Update_text /\ Called)
       => Alive /\ Kinds = <<"Update">> /\ Kinds # <<"Divide", "Divide">>

\* C13: 1/*c*/+2 lexes to Int(1), Plus, Int(2): the comment yields no
\* token.
C13_CommentElided ==
    (source = Comment_text /\ Lexed)
    => /\ result.kind = "None"
       /\ [k \in 1..Len(tokens) |-> tokens[k].val]
            = << [kind |-> "Int", int |-> <<1>>],
                 [kind |-> "Plus"],
                 [kind |-> "Int", int |-> <<2>>] >>

\* C14: "a${ { b = 1; } }" lexes to Quote, StrPart, DollarBrace, BraceL,
\* Id, Assign, Int, Semicolon, BraceR, BraceR, Quote: the BraceR of the
\* inner set does not end the interpolation.
C14_InterpolationNesting ==
    (source = Interpolation_text /\ Lexed)
    => /\ result.kind = "None"
       /\ Kinds = << "Quote", "StrPart", "DollarBrace", "BraceL", "Id",
                     "Assign", "Int", "Semicolon", "BraceR", "BraceR",
                     "Quote" >>
       /\ tokens[2].val = [kind |-> "StrPart", str |-> <<"a">>]
       /\ tokens[7].val = [kind |-> "Int", int |-> <<1>>]

\* C15: 3.14 lexes to one Float token and to no Int token.
C15_FloatNotInt ==
    (source = Float_text /\ Called)
    => Alive /\ Kinds = <<"Float">>

\* C16: on the text "abc without a closing quote the pass ends without an
\* abort and reports UnterminatedString at the position of the opening
\* quote, 1:1.
C16_UnterminatedString ==
    (source = Unterminated_text /\ Lexed)
    => /\ result.kind = "None"
       /\ \E k \in 1..Len(tokens) :
            /\ tokens[k].val.kind = "UnterminatedString"
            /\ tokens[k].span.start = [line |-> 1, column |-> 1]

-----------------------------------------------------------------------------
(* C17 *)

\* The first character of a text, if any.
HeadOpt(s) == IF s = <<>> THEN None ELSE Some(Head(s))

\* C17: a call of Lexer::peek returns the first character not yet consumed
\* (None at the end of input) and leaves the iterator, its position and
\* the text as they were; a call of CharsPos::next made while that value
\* is still the latest peek of the same characters returns the same value.
C17_PeekDoesNotConsume ==
    [][ /\ LexerPeek
           => /\ peeked' = HeadOpt(chars.chars)
              /\ chars' = chars
              /\ source' = source
        /\ (CharsPosNext /\ peeked = HeadOpt(chars.chars))
           => yielded' = peeked ]_vars

\* The first character was looked at and then consumed; the one after it
\* is a different character.
C17_Witness ==
    /\ Len(source) >= 2 /\ source[1] # source[2]
    /\ Len(Consumed) = 1
    /\ peeked = Some(source[1])
    /\ yielded = peeked
    /\ calls = 0

-----------------------------------------------------------------------------
(* C18 *)

\* C18: once Lexer::next has returned None, every later step leaves the
\* result None, and the remaining input, the position and the tokens as
\* they are.
C18_ExhaustionIsStable ==
    [][ result.kind = "None"
        => /\ result'.kind = "None"
           /\ chars' = chars
           /\ tokens' = tokens ]_vars

\* A token, then None, then a further call that returned None again.
C18_Witness == calls = 3 /\ result.kind = "None" /\ Len(tokens) = 1

-----------------------------------------------------------------------------
(* C19 *)

\* C19: a call of Lexer::next that returns a token returns an Int that
\* starts where the iterator stood, consumes the whole run of digits found
\* there and nothing more: the iterator then stands at the end of the span
\* with the rest of the text, whose first character is not a digit, and
\* the span lies in one line and is as many columns wide as the run.
C19_IntConsumesDigitRun ==
    [][ (calls' = calls + 1 /\ result'.kind = "Some")
        => LET t   == result'.tok
               run == DigitRun(chars.chars)
           IN  /\ t.val.kind = "Int"
               /\ run # <<>>
               /\ t.span.start = chars.pos
               /\ chars'.pos = t.span.end
               /\ chars'.chars = SubSeq(chars.chars, Len(run) + 1, Len(chars.chars))
               /\ peek(chars') = HeadOpt(SubSeq(chars.chars, Len(run) + 1,
                                                Len(chars.chars)))
               /\ (chars'.chars # <<>> => Head(chars'.chars) \notin Digits)
               /\ t.span.end.line = t.span.start.line
               /\ t.span.end.column - t.span.start.column = Len(run) ]_vars

\* An Int was lexed on the second line with a character left after it.
C19_Witness ==
    /\ result.kind = "Some"
    /\ result.tok.span.start.line = 2
    /\ result.tok.span.end = chars.pos
    /\ chars.chars # <<>>

-----------------------------------------------------------------------------
(* C20 *)

\* The texts on which every call returns: the empty one and the digit
\* strings of a value up to 2^63-1.
ReturnsNormally == source = <<>> \/ (AllDigits(source) /\ FitsI64(source))

\* C20: a lexer yields at most one token; after a token the next character
\* is not a digit, and the call after it returns None or dies; None is
\* reached on the texts of ReturnsNormally and a call dies on all others.
C20_AtMostOneToken ==
    /\ Len(tokens) <= 1
    /\ (result.kind = "Some"
        => ~(peek(chars).some /\ peek(chars).val \in Digits))
    /\ (calls >= 2 => result.kind \in {"None", "panic"})
    /\ (result.kind = "None" => ReturnsNormally)
    /\ (result.kind = "panic" => ~ReturnsNormally)
    /\ (calls >= 2 => (result.kind = "None" <=> ReturnsNormally))

\* A token was yielded and the call after it died.
C20_Witness == calls = 2 /\ result.kind = "panic" /\ Len(tokens) = 1

=============================================================================
